---- MODULE Spec2Model ----
(***************************************************************************)
(* A model of flocker/volume/filesystems/zfs.py: the snapshot diff         *)
(* algorithm, the streaming send/receive scopes of Filesystem (reader and  *)
(* writer), the StoragePool operations that create, clone, rename and list *)
(* datasets, startService and the protocol of zfs_command.  The zfs tool   *)
(* is an external process: a command's exit code is a nondeterministic     *)
(* input, its effect on the datasets is applied only when it exits with    *)
(* code 0.                                                                 *)
(***************************************************************************)
EXTENDS Integers, Sequences, FiniteSets, TLC

VARIABLES
    \* ---- which side of a transfer the Filesystem plays in this behaviour
    role,            \* "reader" (send), "writer" (receive) or "none"
    \* ---- _latest_common_snapshot applied to drawn inputs
    some,            \* first argument, oldest to newest
    others,          \* second argument, oldest to newest
    lcs,             \* [done, value]: the value returned for (some, others)
    \* ---- host A: the dataset Filesystem.reader sends
    zfsSnaps,        \* snapshots of the pool, oldest first, <<dataset, name>>
    content,         \* version of the live content of the dataset
    captured,        \* snapshot name -> the content that snapshot holds
    rpc,             \* position of the reader() call
    remote_snapshots,\* the argument of reader(), after the None default
    local_snapshots, \* the parsed listing of this call
    snapshot,        \* name of the snapshot this call created (None before)
    identifier,      \* arguments of the send command of this call
    rproc,           \* the send process: [spawned, closed, waited, code]
    rtrace,          \* commands and pipe operations of this call, in order
    rraised,         \* the caller raised inside the scope of this call
    rresult,         \* how the call ended, as its caller sees it
    \* ---- host B: the dataset Filesystem.writer receives into
    bexists,         \* the dataset exists
    bmount,          \* its mountpoint property is the configured mount path
    bsnaps,          \* names of its snapshots, in creation order
    stream,          \* what the caller has written into the receive pipe
    wpc,             \* position of the writer() call
    existed,         \* what _exists() answered in this call
    cmd,             \* the receive command of this call
    wproc,           \* the receive process: [spawned, closed, waited, code]
    wtrace,          \* commands and pipe operations of this call, in order
    wraised,         \* the caller raised inside the scope of this call
    wresult,         \* how the call ended, as its caller sees it
    \* ---- the StoragePool and the datasets of its pool
    root,            \* properties of the pool's root dataset
    ds,              \* dataset -> [exists, readonly, mountpoint]
    dirs,            \* dataset -> state of the directory at its mount path
    active,          \* the slots in which pool operations run
    origin,          \* the datasets and directories before any operation
    op,              \* slot -> the operation in progress there
    calls,           \* the startService calls made so far, oldest first
    \* ---- successive transfers of the dataset from host A to host B
    xfer,            \* [round, ok]: the transfer in progress, one succeeded
    \* ---- one parse of the output of a snapshot listing
    parse,           \* [lines, target, data, done, result]
    \* ---- one zfs_command: the child process and its protocol
    proto            \* [state, written, data, code, fired, outcome]

lcsVars    == <<some, others, lcs>>
readerVars == <<zfsSnaps, content, captured, rpc, remote_snapshots,
                local_snapshots, snapshot,
                identifier, rproc, rtrace, rraised, rresult>>
writerVars == <<bexists, bmount, bsnaps, stream, wpc, existed, cmd, wproc,
                wtrace, wraised, wresult>>
xferVars   == <<xfer>>
poolVars   == <<root, ds, dirs, active, op, origin>>
cmdVars    == <<proto>>
parseVars  == <<parse>>
svcVars    == <<calls>>
vars       == <<role, xferVars, lcsVars, cmdVars, parseVars, svcVars,
                readerVars, writerVars, poolVars>>

----------------------------------------------------------------------------
(* Bounds of the model.                                                    *)

\* snapshot names are 1..MaxNames
MaxNames == 3
\* longest history drawn as an argument of _latest_common_snapshot
MaxLen == 3
\* longest remote history drawn as the argument of reader(), and the most
\* snapshots the pool of host A holds before the first call
MaxHistory == 2
\* The longest standard output of one zfs child process, in bytes.
MaxOutput == 4
\* The most startService calls made on one pool.
MaxStarts == 2
\* The most writes made to the live dataset of host A.
MaxWrites == 1
\* The most transfers from host A to host B in one behaviour.
MaxTransfers == 2

Names == 1..MaxNames

\* The value returned when no snapshot is shared (Python's None).
None == 0

RECURSIVE SeqsUpTo(_, _)
SeqsUpTo(S, n) ==
    IF n = 0 THEN {<<>>}
    ELSE LET shorter == SeqsUpTo(S, n - 1)
         IN shorter \cup {Append(s, x) : s \in shorter, x \in S}

Range(s) == {s[i] : i \in DOMAIN s}

NoDuplicates(s) == \A i, j \in DOMAIN s : s[i] = s[j] => i = j

Histories == SeqsUpTo(Names, MaxLen)

----------------------------------------------------------------------------
(* The diff algorithm.                                                     *)

\* A loop that returns the newest element without the membership test.
ScanReversedUnchecked(list, others_set, i) ==
    IF i = 0 THEN None ELSE list[i]

\* The loop of _latest_common_snapshot from index i of `list` downwards.
RECURSIVE ScanReversed(_, _, _)
ScanReversed(list, others_set, i) ==
    IF i = 0 THEN None
    ELSE IF list[i] \in others_set THEN list[i]
    ELSE ScanReversed(list, others_set, i - 1)

\* A scan from the oldest end: the loop without reversed().
RECURSIVE ScanForward(_, _, _)
ScanForward(list, others_set, i) ==
    IF i > Len(list) THEN None
    ELSE IF list[i] \in others_set THEN list[i]
    ELSE ScanForward(list, others_set, i + 1)

latest_common_snapshot_oldest(a, b) == ScanForward(a, Range(b), 1)

_latest_common_snapshot(a, b) == ScanReversed(a, Range(b), Len(a))

----------------------------------------------------------------------------
(* The state before any call of a component.                               *)

LcsIdle ==
    /\ some = <<>>
    /\ others = <<>>
    /\ lcs = [done |-> FALSE, value |-> None]

NoProcess == [spawned |-> 0, closed |-> 0, waited |-> 0, code |-> -1]

ReaderIdle ==
    /\ rpc = "idle"
    /\ remote_snapshots = <<>>
    /\ local_snapshots = <<>>
    /\ snapshot = None
    /\ identifier = <<>>
    /\ rproc = NoProcess
    /\ rtrace = <<>>
    /\ rraised = FALSE
    /\ rresult = "none"

WriterIdle ==
    /\ wpc = "idle"
    /\ existed = FALSE
    /\ cmd = <<>>
    /\ wproc = NoProcess
    /\ wtrace = <<>>
    /\ wraised = FALSE
    /\ wresult = "none"

\* The volumes of the model as <<owner uuid, name>>; "me" is this node.
Volumes == {<<"me", "a">>, <<"other", "a">>, <<"me", "b">>}

\* volume_to_dataset: the dataset "<uuid>.<name>", kept as its two parts.
volume_to_dataset(volume) == <<volume[1], volume[2]>>

Datasets == {volume_to_dataset(v) : v \in Volumes}

Slots == {1, 2}

NoDataset == [exists |-> FALSE, readonly |-> "inherit", mountpoint |-> <<>>]

NoOp == [kind |-> "none", pc |-> "idle", src |-> <<>>, vol |-> <<>>,
         trace |-> <<>>, code |-> -1, result |-> "none", returned |-> {}]

\* The result slot of a Deferred that has not fired.
NoOutcome == [how |-> "none", name |-> "none", exitCode |-> -1, data |-> <<>>]

CmdIdle ==
    proto = [state |-> "idle", written |-> <<>>, data |-> <<>>, code |-> -1,
             fired |-> 0, outcome |-> NoOutcome]

SvcIdle == calls = <<>>

ParseIdle ==
    parse = [lines |-> <<>>, target |-> <<>>, data |-> <<>>, done |-> FALSE,
             result |-> <<>>]

\* Filesystem.name of the dataset sent, and a dataset beneath it whose
\* snapshots the recursive listing also prints.
FsName == "pool/fs"
ChildName == "pool/fs/child"

\* The content of a snapshot that does not exist.
NoContent == -1

\* A pipe into which nothing has been written.
NoStream == [basis |-> None, target |-> None, data |-> NoContent]

\* The content held by the snapshots `snaps` of the dataset sent, all taken
\* when its content was `c`.
CapturedAt(snaps, c) ==
    [n \in Names |-> IF <<FsName, n>> \in Range(snaps) THEN c
                     ELSE NoContent]

TransferIdle ==
    /\ content = 0
    /\ captured = CapturedAt(zfsSnaps, 0)
    /\ bsnaps = <<>>
    /\ stream = NoStream
    /\ xfer = [round |-> 0, ok |-> FALSE]

PoolIdle ==
    /\ root = [readonly |-> "off", canmount |-> "on"]
    /\ ds = [d \in Datasets |-> NoDataset]
    /\ dirs = [d \in Datasets |-> "missing"]
    /\ active = {}
    /\ origin = [ds |-> ds, dirs |-> dirs]
    /\ op = [o \in Slots |-> NoOp]

----------------------------------------------------------------------------
(* _latest_common_snapshot as a pure function of two drawn histories.      *)

InitLcs ==
    /\ role = "none"
    /\ some \in Histories
    /\ others \in Histories
    /\ lcs = [done |-> FALSE, value |-> None]
    /\ zfsSnaps = <<>>
    /\ ReaderIdle
    /\ bexists = FALSE
    /\ bmount = FALSE
    /\ WriterIdle
    /\ PoolIdle
    /\ CmdIdle
    /\ SvcIdle
    /\ ParseIdle
    /\ TransferIdle

ApplyLcs ==
    /\ ~lcs.done
    /\ lcs' = [done |-> TRUE, value |-> _latest_common_snapshot(some, others)]
    /\ UNCHANGED <<role, xferVars, parseVars, some, others, cmdVars, svcVars,
                   readerVars, writerVars, poolVars>>

NextLcs == ApplyLcs

SpecLcs == InitLcs /\ [][NextLcs]_vars

----------------------------------------------------------------------------
(* Filesystem.reader: send the dataset pool/fs of host A.                  *)

\* The lines a listing can hold: <<dataset, snapshot name>>, the two sides
\* of line.split('@', 1).
Lines == {FsName, ChildName} \X Names

IsPrefixOf(s, t) == Len(s) <= Len(t) /\ SubSeq(t, 1, Len(s)) = s

\* A parse that keeps the lines of every dataset whose name starts with the
\* name asked for.
RECURSIVE parse_snapshots_prefix(_, _)
parse_snapshots_prefix(data, name) ==
    IF data = <<>> THEN <<>>
    ELSE LET line == data[Len(data)]
             rest == parse_snapshots_prefix(SubSeq(data, 1, Len(data) - 1),
                                            name)
         IN IF IsPrefixOf(name, line[1]) THEN Append(rest, line[2]) ELSE rest

\* Keep the snapshot names of the lines of one dataset, in order.
RECURSIVE _parse_snapshots(_, _)
_parse_snapshots(data, name) ==
    IF data = <<>> THEN <<>>
    ELSE LET line == data[Len(data)]
             rest == _parse_snapshots(SubSeq(data, 1, Len(data) - 1), name)
         IN IF line[1] = name THEN Append(rest, line[2]) ELSE rest

\* The arguments reader() can be called with: None or a history.
ReaderArgs ==
    {[none |-> TRUE, list |-> <<>>]}
        \cup {[none |-> FALSE, list |-> h] : h \in SeqsUpTo(Names, MaxHistory)}

\* A default that replaces the history given by the caller as well.
RemoteAlwaysEmpty(arg) == <<>>

\* "if remote_snapshots is None: remote_snapshots = []"
RemoteOrEmpty(arg) == IF arg.none THEN <<>> ELSE arg.list

\* The diff algorithm called with the local listing first.
ReaderBasisLocalFirst(remote, local) == _latest_common_snapshot(local, remote)

\* The basis of the send: the diff algorithm as reader() calls it.
ReaderBasis(remote, local) == _latest_common_snapshot(remote, local)

\* The arguments after "zfs send": the snapshot alone, or -i basis snapshot.
FullSend(snap) == << <<"", FsName, snap>> >>
IncrementalSend(basis, snap) ==
    << <<"-i", "", None>>, <<"", FsName, basis>>, <<"", FsName, snap>> >>

\* The basis named by a send command, None for a full send.
BasisOf(ident) == IF Len(ident) = 3 THEN ident[2][3] ELSE None

\* The snapshot a send command sends.
TargetOf(ident) == ident[Len(ident)]

\* A send process that reads the live dataset.
StreamOfLive(ident, cap, live) ==
    [basis |-> BasisOf(ident), target |-> TargetOf(ident)[3], data |-> live]

\* What the process "zfs send <identifier>" writes to its standard output:
\* the content held by the snapshot the command names last, relative to the
\* basis when there is one.
StreamOf(ident, cap, live) ==
    [basis |-> BasisOf(ident), target |-> TargetOf(ident)[3],
     data |-> cap[TargetOf(ident)[3]]]

\* A send that ignores the basis found.
SendIdentifierAlwaysFull(basis, snap) == FullSend(snap)

SendIdentifier(basis, snap) ==
    IF basis = None THEN FullSend(snap) ELSE IncrementalSend(basis, snap)

\* A release that closes the pipe and leaves the process unreaped.
ReaderReleaseNoWait(proc, code) == [proc EXCEPT !.closed = @ + 1]

\* The finally block of reader(): close the pipe, wait for the process.
ReaderRelease(proc, code) ==
    [proc EXCEPT !.closed = @ + 1, !.waited = @ + 1, !.code = code]

\* An outcome that turns a non-zero exit of zfs send into an error.
ReaderOutcomeChecked(raised, code) ==
    IF raised THEN "CallerError"
    ELSE IF code # 0 THEN "CalledProcessError"
    ELSE "returned"

\* What the caller of reader() sees when the scope is left.
ReaderOutcome(raised, code) == IF raised THEN "CallerError" ELSE "returned"

\* Exit codes of a child process; 3 stands for every termination other than
\* the codes 0, 1 and 2 (another code, a signal).
ExitCodes == {0, 1, 2, 3}

\* reader() up to its yield: snapshot, listing, diff, spawn of zfs send.
\* uuid is the value of uuid4(); outcome tells which command, if any, exits
\* non-zero (check_call and check_output then raise CalledProcessError).
ReaderEnter(arg, uuid, outcome) ==
    /\ role \in {"reader", "transfer"}
    /\ rpc = "idle"
    /\ <<FsName, uuid>> \notin Range(zfsSnaps)
    /\ LET created == IF outcome = "snapshot_failed" THEN zfsSnaps
                      ELSE Append(zfsSnaps, <<FsName, uuid>>)
           local   == _parse_snapshots(created, FsName)
           remote  == RemoteOrEmpty(arg)
           basis   == ReaderBasis(remote, local)
       IN /\ zfsSnaps' = created
          /\ captured' = IF outcome = "snapshot_failed" THEN captured
                         ELSE [captured EXCEPT ![uuid] = content]
          /\ snapshot' = uuid
          /\ rproc' = IF outcome = "ok"
                      THEN [NoProcess EXCEPT !.spawned = 1] ELSE NoProcess
          /\ local_snapshots' = IF outcome = "ok" THEN local ELSE <<>>
          /\ remote_snapshots' = IF outcome = "ok" THEN remote ELSE <<>>
          /\ identifier' = IF outcome = "ok"
                           THEN SendIdentifier(basis, uuid) ELSE <<>>
          /\ rtrace' = CASE outcome = "snapshot_failed" -> <<"snapshot">>
                         [] outcome = "list_failed" -> <<"snapshot", "list">>
                         [] OTHER -> <<"snapshot", "list", "send">>
          /\ rraised' = FALSE
          /\ rpc' = IF outcome = "ok" THEN "open" ELSE "done"
          /\ rresult' = IF outcome = "ok" THEN "pending"
                        ELSE "CalledProcessError"
    /\ UNCHANGED <<role, xferVars, parseVars, lcsVars, cmdVars, svcVars,
                   writerVars, poolVars, content>>

\* The caller leaves the scope, normally or by raising; the send process
\* exits with `code`.
ReaderExit(raised, code) ==
    /\ rpc = "open"
    /\ rproc' = ReaderRelease(rproc, code)
    /\ rtrace' = rtrace \o <<"close", "wait">>
    /\ rraised' = raised
    /\ rresult' = ReaderOutcome(raised, code)
    /\ rpc' = "done"
    /\ UNCHANGED <<role, xferVars, parseVars, lcsVars, cmdVars, svcVars,
                   writerVars, poolVars, zfsSnaps, content, captured,
                   remote_snapshots, local_snapshots, snapshot, identifier>>

NextReader ==
    \/ /\ rpc = "idle"
       /\ \E arg \in ReaderArgs, uuid \in Names,
             outcome \in {"ok", "snapshot_failed", "list_failed"} :
               ReaderEnter(arg, uuid, outcome)
    \/ /\ rpc = "open"
       /\ \E raised \in BOOLEAN, code \in ExitCodes :
             ReaderExit(raised, code)

----------------------------------------------------------------------------
(* Filesystem.writer: receive into the dataset pool/fs of host B.          *)

\* "zfs list <name>" exits 0 when the dataset exists and 1 when it does not.
ListExitCode(exists) == IF exists THEN 0 ELSE 1

\* Filesystem._exists: False when check_output raises CalledProcessError
\* (a non-zero exit), True otherwise.
_exists(exists) == ListExitCode(exists) = 0

\* A receive that is always forced.
ReceiveCmdAlwaysForced(found) == <<"zfs", "receive", "-F", FsName>>

\* The receive command: forced when the dataset was found to exist.
ReceiveCmd(found) ==
    IF found THEN <<"zfs", "receive", "-F", FsName>>
    ELSE <<"zfs", "receive", FsName>>

\* A release that waits without closing the pipe.
WriterReleaseNoClose(proc, code) ==
    [proc EXCEPT !.waited = @ + 1, !.code = code]

\* The finally block of writer(): close the pipe, wait for the process.
WriterRelease(proc, code) ==
    [proc EXCEPT !.closed = @ + 1, !.waited = @ + 1, !.code = code]

\* "succeeded = not process.wait()"
Succeeded(code) == code = 0

\* A writer whose mountpoint command sits inside the finally block.
SetsMountpointInFinally(raised, code) == Succeeded(code)

\* A writer that sets the mountpoint whatever the receive's exit code.
SetsMountpointAnyCode(raised, code) == ~raised

\* Whether writer() goes on to set the mountpoint: only when control leaves
\* the finally block normally and the receive succeeded.
SetsMountpoint(raised, code) == ~raised /\ Succeeded(code)

\* What the caller of writer() sees; mcode is the exit code of the
\* mountpoint command when it is run (check_call raises on non-zero).
WriterOutcome(raised, code, mcode) ==
    IF raised THEN "CallerError"
    ELSE IF SetsMountpoint(raised, code) /\ mcode # 0
         THEN "CalledProcessError"
    ELSE "returned"

\* writer() up to the choice of the command: the existence check.
WriterCheck ==
    /\ role \in {"writer", "transfer"}
    /\ wpc \in {"idle", "done"}
    /\ existed' = _exists(bexists)
    /\ cmd' = ReceiveCmd(_exists(bexists))
    /\ wproc' = NoProcess
    /\ wtrace' = <<"list">>
    /\ wraised' = FALSE
    /\ wresult' = "pending"
    /\ wpc' = "checked"
    /\ UNCHANGED <<role, xferVars, parseVars, lcsVars, cmdVars, svcVars,
                   readerVars, poolVars, bexists, bmount, bsnaps, stream>>

\* Popen(cmd, stdin=PIPE) and the yield of the pipe.
WriterSpawn ==
    /\ wpc = "checked"
    /\ wproc' = [wproc EXCEPT !.spawned = @ + 1]
    /\ wtrace' = Append(wtrace, IF "-F" \in Range(cmd) THEN "receive -F"
                                ELSE "receive")
    /\ wpc' = "open"
    /\ UNCHANGED <<role, xferVars, parseVars, lcsVars, cmdVars, svcVars,
                   readerVars, poolVars, bexists, bmount, bsnaps, stream,
                   existed, cmd, wraised, wresult>>

\* The place of snapshot n in the snapshots of a dataset.
IndexOf(snaps, n) == CHOOSE i \in DOMAIN snaps : snaps[i] = n

\* What the receive command c needs to exit with code 0: a plain receive
\* creates the dataset, so the dataset must not exist; a full stream
\* replaces a dataset that has no snapshots; an incremental stream needs its
\* basis among the snapshots of the dataset; the stream's own snapshot must
\* be new there.  st = NoStream: what was written is not known.
Receivable(st, snaps, exists, c) ==
    /\ "-F" \in Range(c) \/ ~exists
    /\ st # NoStream =>
          /\ st.target \notin Range(snaps)
          /\ IF st.basis = None THEN snaps = <<>>
             ELSE exists /\ st.basis \in Range(snaps)

\* The snapshots of the dataset after the receive: a full stream leaves its
\* snapshot alone, an incremental one throws away the snapshots newer than
\* its basis and adds its own.
ReceiveEffect(st, snaps, code) ==
    IF code # 0 \/ st = NoStream THEN snaps
    ELSE IF st.basis = None THEN <<st.target>>
    ELSE Append(SubSeq(snaps, 1, IndexOf(snaps, st.basis)), st.target)

\* The caller leaves the scope, normally or by raising; the receive process
\* exits with `code` (a plain receive into an existing dataset fails, and so
\* does a receive of nothing); the mountpoint command, when run, exits with
\* mcode.
WriterExit(raised, code, mcode) ==
    /\ wpc = "open"
    /\ code = 0 => Receivable(stream, bsnaps, bexists, cmd)
    /\ (role = "transfer" /\ stream = NoStream) => code # 0
    /\ bsnaps' = ReceiveEffect(stream, bsnaps, code)
    /\ wproc' = WriterRelease(wproc, code)
    /\ wtrace' = wtrace \o <<"close", "wait">>
                   \o (IF SetsMountpoint(raised, code)
                       THEN <<"set mountpoint">> ELSE <<>>)
    /\ bexists' = (bexists \/ code = 0)
    /\ bmount' = IF SetsMountpoint(raised, code) /\ mcode = 0 THEN TRUE
                 ELSE IF code = 0 THEN FALSE
                 ELSE bmount
    /\ wraised' = raised
    /\ wresult' = WriterOutcome(raised, code, mcode)
    /\ wpc' = "done"
    /\ UNCHANGED <<role, xferVars, parseVars, lcsVars, cmdVars, svcVars,
                   readerVars, poolVars, stream, existed, cmd>>

\* Another user of the pool creates or destroys the dataset of host B (the
\* datasets are the external tool's state, not the Filesystem object's).
ExternalDatasetChange ==
    /\ role = "writer"
    /\ bexists' = ~bexists
    /\ bmount' = FALSE
    /\ bsnaps' = <<>>
    /\ UNCHANGED <<role, xferVars, parseVars, lcsVars, cmdVars, svcVars,
                   readerVars, poolVars, stream, wpc, existed, cmd, wproc,
                   wtrace, wraised, wresult>>

NextWriter ==
    \/ WriterCheck
    \/ WriterSpawn
    \/ /\ wpc = "open"
       /\ \E raised \in BOOLEAN, code \in ExitCodes, mcode \in ExitCodes :
             WriterExit(raised, code, mcode)
    \/ ExternalDatasetChange

----------------------------------------------------------------------------
(* The streaming operations of a Filesystem, in either role.               *)

Init ==
    /\ LcsIdle
    /\ ReaderIdle
    /\ WriterIdle
    /\ PoolIdle
    /\ CmdIdle
    /\ SvcIdle
    /\ ParseIdle
    /\ \/ /\ role = "reader"
          /\ zfsSnaps \in {s \in SeqsUpTo(Lines, MaxHistory) : NoDuplicates(s)}
          /\ bexists = FALSE
          /\ bmount = FALSE
       \/ /\ role = "writer"
          /\ zfsSnaps = <<>>
          /\ bexists \in BOOLEAN
          /\ bmount = bexists
    /\ TransferIdle

Next == NextReader \/ NextWriter

Spec == Init /\ [][Next]_vars

----------------------------------------------------------------------------
(* Successive transfers of the dataset from host A to host B: the caller   *)
(* asks B for its snapshots, opens reader() on A with them, opens writer() *)
(* on B inside that scope and copies the one pipe into the other.  Writes  *)
(* to the live dataset of A go on meanwhile.                               *)

\* Exit codes drawn for the processes of a transfer: success or failure.
TransferCodes == {0, 1}

\* Filesystem.snapshots: the snapshot names of the dataset, oldest first,
\* the empty list when the dataset does not exist.
snapshots(exists, snaps) == IF _exists(exists) THEN snaps ELSE <<>>

\* The receive of the transfer in progress exited with code 0.
TransferSucceeded == wpc = "done" /\ wproc.code = 0

\* reader() on A, given the snapshots B holds now.
TransferSend(uuid, outcome) ==
    ReaderEnter([none |-> FALSE, list |-> snapshots(bexists, bsnaps)], uuid,
                outcome)

\* writer() on B, entered inside the reader scope.
TransferReceive ==
    /\ role = "transfer"
    /\ rpc = "open"
    /\ wpc = "idle"
    /\ WriterCheck

\* The caller copies what zfs send wrote into the pipe of zfs receive.
Copy ==
    /\ role = "transfer"
    /\ rpc = "open"
    /\ wpc = "open"
    /\ stream = NoStream
    /\ stream' = StreamOf(identifier, captured, content)
    /\ UNCHANGED <<role, xferVars, parseVars, lcsVars, cmdVars, svcVars,
                   readerVars, poolVars, bexists, bmount, bsnaps, wpc,
                   existed, cmd, wproc, wtrace, wraised, wresult>>

\* The reader scope is left once the writer scope, if any, has been left.
TransferClose(raised, code) ==
    /\ role = "transfer"
    /\ wpc \in {"idle", "done"}
    /\ ReaderExit(raised, code)

\* A user of host A changes the live dataset.
LocalWrite ==
    /\ role = "transfer"
    /\ content < MaxWrites
    /\ content' = content + 1
    /\ UNCHANGED <<role, xferVars, parseVars, lcsVars, cmdVars, svcVars,
                   writerVars, poolVars, zfsSnaps, captured, rpc,
                   remote_snapshots, local_snapshots, snapshot, identifier,
                   rproc, rtrace, rraised, rresult>>

\* The transfer is over; the caller goes on to the next one.
TransferNext ==
    /\ role = "transfer"
    /\ rpc = "done"
    /\ wpc \in {"idle", "done"}
    /\ xfer.round < MaxTransfers
    /\ xfer' = [round |-> xfer.round + 1, ok |-> xfer.ok \/ TransferSucceeded]
    /\ rpc' = "idle"
    /\ remote_snapshots' = <<>>
    /\ local_snapshots' = <<>>
    /\ snapshot' = None
    /\ identifier' = <<>>
    /\ rproc' = NoProcess
    /\ rtrace' = <<>>
    /\ rraised' = FALSE
    /\ rresult' = "none"
    /\ wpc' = "idle"
    /\ existed' = FALSE
    /\ cmd' = <<>>
    /\ wproc' = NoProcess
    /\ wtrace' = <<>>
    /\ wraised' = FALSE
    /\ wresult' = "none"
    /\ stream' = NoStream
    /\ UNCHANGED <<role, parseVars, lcsVars, cmdVars, svcVars, poolVars,
                   zfsSnaps, content, captured, bexists, bmount, bsnaps>>

NextTransfer ==
    \/ /\ rpc = "idle"
       /\ \E uuid \in Names,
             outcome \in {"ok", "snapshot_failed", "list_failed"} :
               TransferSend(uuid, outcome)
    \/ TransferReceive
    \/ WriterSpawn
    \/ Copy
    \/ \E raised \in BOOLEAN, code \in TransferCodes, mcode \in TransferCodes :
          WriterExit(raised, code, mcode)
    \/ \E raised \in BOOLEAN, code \in TransferCodes :
          TransferClose(raised, code)
    \/ LocalWrite
    \/ TransferNext

\* Host A holds at most one snapshot, of the dataset or beneath it; host B
\* has no dataset, or one with at most one snapshot.
InitTransfer ==
    /\ role = "transfer"
    /\ LcsIdle
    /\ ReaderIdle
    /\ WriterIdle
    /\ PoolIdle
    /\ CmdIdle
    /\ SvcIdle
    /\ ParseIdle
    /\ zfsSnaps \in SeqsUpTo(Lines, 1)
    /\ content = 0
    /\ captured = CapturedAt(zfsSnaps, 0)
    /\ bexists \in BOOLEAN
    /\ bmount = bexists
    /\ bsnaps \in IF bexists THEN SeqsUpTo(Names, 1) ELSE {<<>>}
    /\ stream = NoStream
    /\ xfer = [round |-> 1, ok |-> FALSE]

SpecTransfer == InitTransfer /\ [][NextTransfer]_vars

----------------------------------------------------------------------------
(* StoragePool: the operations on the datasets of one pool.  A command of  *)
(* a Deferred chain is one step: the step takes the command's exit code,   *)
(* applies its effect when the code is 0 and runs the callbacks that fire  *)
(* on its completion.                                                      *)

\* StoragePool._name, as the characters of the name.
PoolName == <<"pool">>

\* Volume.locally_owned(): the volume belongs to this node.
locally_owned(volume) == volume[1] = "me"

\* StoragePool.get: the Filesystem of a volume; its mount path is the child
\* of the mount root named after the dataset.
get(volume) ==
    [pool |-> PoolName, dataset |-> volume_to_dataset(volume),
     mountpoint |-> volume_to_dataset(volume)]

\* _AccumulatingProtocol.connectionLost: the result of zfs_command by exit
\* code.
Classify(code) ==
    CASE code = 0 -> "ok"
      [] code = 1 -> "CommandFailed"
      [] code = 2 -> "BadArguments"
      [] OTHER -> "ProcessTerminated"

\* An errback that changes no failure.
creation_failed_unchanged(f) == f

\* An errback that reports every failure as FilesystemAlreadyExists.
creation_failed_always(f) == "FilesystemAlreadyExists"

\* _created.creation_failed: CommandFailed becomes FilesystemAlreadyExists,
\* any other failure passes through.
creation_failed(f) ==
    IF f = "CommandFailed" THEN "FilesystemAlreadyExists" ELSE f

\* The result of a creation command (snapshot, clone, rename) handed to
\* _created: creation_failed is the errback of that Deferred.
CreatedResult(code) ==
    IF code = 0 THEN "pending" ELSE creation_failed(Classify(code))

\* A normalization whose failures went through creation_failed.
ExistsResultReinterpreted(code) ==
    IF code = 0 THEN "pending" ELSE creation_failed(Classify(code))

\* The result of a command of _created.exists: exists is added after
\* creation_failed, so no errback follows it.
ExistsResult(code) == IF code = 0 THEN "pending" ELSE Classify(code)

\* A chain that stops only when the child process ended abnormally.
NextStepUnlessTerminated(code, next) == IF code = 3 THEN "done" ELSE next

\* A chain that issues its next command whatever the last one did.
NextStepAlways(code, next) == next

\* A callback runs only when the command before it succeeded.
NextStep(code, next) == IF code = 0 THEN next ELSE "done"

\* A remounted() that also runs after a failure.
RemountsAnyCode(kind, code) == kind = "change_owner"

\* change_owner adds remounted() as a callback after _created.
Remounts(kind, code) == kind = "change_owner" /\ code = 0

\* A create() whose Deferred went through creation_failed.
CreateResultReinterpreted(code) == creation_failed(Classify(code))

\* The result of create(): the Deferred of zfs_command with one callback
\* and no errback.
CreateResult(code) == Classify(code)

\* The properties "zfs create" is given: -o readonly=off when the volume is
\* locally owned, nothing about readonly otherwise.
CreateReadonly(volume) == IF locally_owned(volume) THEN "off" ELSE "inherit"

\* A normalization that leaves the readonly property as it was.
NormalizedReadonlyKept(volume, current) == current

\* _created.exists: "set readonly=off" when the new volume is locally owned,
\* "inherit readonly" otherwise.
NormalizedReadonly(volume, current) ==
    IF locally_owned(volume) THEN "off" ELSE "inherit"

ReadonlyCommand(volume) ==
    IF locally_owned(volume) THEN "set readonly=off" ELSE "inherit readonly"

\* The readonly value in force on a dataset below the root.
Effective(d) ==
    IF ds[d].readonly = "inherit" THEN root.readonly ELSE ds[d].readonly

\* zfs creates the directory of a mount path it mounts on.
DirMounted(state) == IF state = "missing" THEN "empty" ELSE state

\* A slot in which an operation can be started.
Free(o) == o \in active /\ op[o].pc = "idle"

Started(kind, src, vol, cmdname, code, result, next) ==
    [kind |-> kind, pc |-> next, src |-> src, vol |-> vol,
     trace |-> <<cmdname>>, code |-> code, result |-> result,
     returned |-> {}]

Stepped(o, cmdname, code, result, next) ==
    [op[o] EXCEPT !.pc = next, !.trace = Append(@, cmdname), !.code = code,
                  !.result = result]

\* The datasets and directories of the pool, now.
Current == [ds |-> ds, dirs |-> dirs]

\* What each command does to the datasets and directories st when it exits
\* with code, and what has to hold of st for it to exit with code 0.
CanCreate(st, volume) == ~st.ds[get(volume).dataset].exists

CreateEffect(st, volume, code) ==
    LET fs == get(volume)
        d  == fs.dataset
    IN IF code # 0 THEN st
       ELSE [ds |-> [st.ds EXCEPT ![d] =
                       [exists |-> TRUE, readonly |-> CreateReadonly(volume),
                        mountpoint |-> fs.mountpoint]],
             dirs |-> [st.dirs EXCEPT ![d] = DirMounted(@)]]

CanSnapshot(st, parent) == st.ds[get(parent).dataset].exists

CanClone(st, parent, volume) ==
    /\ st.ds[get(parent).dataset].exists
    /\ ~st.ds[get(volume).dataset].exists

CloneEffect(st, volume, code) ==
    IF code # 0 THEN st
    ELSE [st EXCEPT !.ds[get(volume).dataset] =
            [exists |-> TRUE, readonly |-> "inherit", mountpoint |-> <<>>]]

CanRename(st, volume, new_volume) ==
    /\ st.ds[get(volume).dataset].exists
    /\ ~st.ds[get(new_volume).dataset].exists

RenameEffect(st, volume, new_volume, code) ==
    LET old == get(volume).dataset
        new == get(new_volume).dataset
    IN IF code # 0 THEN st
       ELSE [st EXCEPT !.ds = [st.ds EXCEPT ![new] = st.ds[old],
                                            ![old] = NoDataset]]

CanSet(st, volume) == st.ds[get(volume).dataset].exists

ReadonlyEffect(st, volume, code) ==
    IF code # 0 THEN st
    ELSE [st EXCEPT !.ds[get(volume).dataset].readonly =
                       NormalizedReadonly(volume, @)]

MountpointEffect(st, volume, code) ==
    LET fs == get(volume)
    IN IF code # 0 THEN st
       ELSE [ds |-> [st.ds EXCEPT ![fs.dataset].mountpoint = fs.mountpoint],
             dirs |-> [st.dirs EXCEPT ![fs.dataset] = DirMounted(@)]]

\* StoragePool.create: one "zfs create"; it exits non-zero when the dataset
\* exists.
PoolCreate(o, volume, code) ==
    LET fs == get(volume)
    IN /\ Free(o)
       /\ code = 0 => CanCreate(Current, volume)
       /\ ds' = CreateEffect(Current, volume, code).ds
       /\ dirs' = CreateEffect(Current, volume, code).dirs
       /\ op' = [op EXCEPT ![o] =
                   [Started("create", <<>>, volume,
                            IF locally_owned(volume)
                            THEN "create readonly=off" ELSE "create",
                            code, CreateResult(code), "done")
                      EXCEPT !.returned = IF code = 0 THEN {fs} ELSE {}]]
       /\ UNCHANGED <<role, xferVars, parseVars, lcsVars, cmdVars, svcVars,
                      readerVars, writerVars, root, active, origin>>

\* StoragePool.clone_to, first command: snapshot the parent.
CloneSnapshot(o, parent, volume, code) ==
    /\ Free(o)
    /\ code = 0 => CanSnapshot(Current, parent)
    /\ op' = [op EXCEPT ![o] =
                Started("clone_to", parent, volume, "snapshot", code,
                        CreatedResult(code), NextStep(code, "clone"))]
    /\ UNCHANGED <<role, xferVars, parseVars, lcsVars, cmdVars, svcVars,
                   readerVars, writerVars, root, ds, dirs, active, origin>>

\* StoragePool.clone_to, second command: clone the snapshot into the new
\* dataset, which gets no local property.
CloneClone(o, code) ==
    /\ o \in active
    /\ op[o].pc = "clone"
    /\ code = 0 => CanClone(Current, op[o].src, op[o].vol)
    /\ ds' = CloneEffect(Current, op[o].vol, code).ds
    /\ op' = [op EXCEPT ![o] =
                Stepped(o, "clone", code,
                        CreatedResult(code), NextStep(code, "readonly"))]
    /\ UNCHANGED <<role, xferVars, parseVars, lcsVars, cmdVars, svcVars,
                   readerVars, writerVars, root, dirs, active, origin>>

\* StoragePool.change_owner, first command: rename the dataset, which keeps
\* its local properties.
ChangeOwnerRename(o, volume, new_volume, code) ==
    /\ Free(o)
    /\ code = 0 => CanRename(Current, volume, new_volume)
    /\ ds' = RenameEffect(Current, volume, new_volume, code).ds
    /\ op' = [op EXCEPT ![o] =
                Started("change_owner", volume, new_volume, "rename", code,
                        CreatedResult(code), NextStep(code, "readonly"))]
    /\ UNCHANGED <<role, xferVars, parseVars, lcsVars, cmdVars, svcVars,
                   readerVars, writerVars, root, dirs, active, origin>>

\* _created.exists, first command: set or inherit readonly on the new
\* dataset.  A failure reaches the caller as it is.
CreatedReadonly(o, code) ==
    /\ o \in active
    /\ op[o].pc = "readonly"
    /\ code = 0 => CanSet(Current, op[o].vol)
    /\ ds' = ReadonlyEffect(Current, op[o].vol, code).ds
    /\ op' = [op EXCEPT ![o] =
                Stepped(o, ReadonlyCommand(op[o].vol), code,
                        ExistsResult(code), NextStep(code, "mountpoint"))]
    /\ UNCHANGED <<role, xferVars, parseVars, lcsVars, cmdVars, svcVars,
                   readerVars, writerVars, root, dirs, active, origin>>

\* A recursive removal (FilePath.remove) of the old mount path.
RmdirOkRecursive(old, datasets, directories) ==
    /\ directories[old] # "missing"
    /\ \A e \in Datasets :
          datasets[e].exists => datasets[e].mountpoint # old

\* A removal that succeeds only while the mount root holds the old mount
\* path and at most one directory more.
RmdirOkFewChildren(old, datasets, directories) ==
    /\ directories[old] = "empty"
    /\ \A e \in Datasets :
          datasets[e].exists => datasets[e].mountpoint # old
    /\ Cardinality({e \in Datasets \ {old} :
                       directories[e] # "missing"}) <= 1

\* os.rmdir of the old mount path: it fails unless the directory exists, is
\* empty and has nothing mounted on it.
RmdirOk(old, datasets, directories) ==
    /\ directories[old] = "empty"
    /\ \A e \in Datasets :
          datasets[e].exists => datasets[e].mountpoint # old

\* change_owner.remounted: os.rmdir of the mount path of the old volume.
RemountedEffect(st, volume) ==
    LET old == get(volume).dataset
    IN IF RmdirOk(old, st.ds, st.dirs)
       THEN [st EXCEPT !.dirs[old] = "missing"] ELSE st

\* _created.exists, second command: set the mountpoint of the new dataset.
\* On success clone_to returns the new Filesystem; change_owner first runs
\* remounted(), which removes the old mount directory.
CreatedMountpoint(o, code) ==
    LET fs  == get(op[o].vol)
        old == get(op[o].src).dataset
        set == MountpointEffect(Current, op[o].vol, code).ds
        mounted == MountpointEffect(Current, op[o].vol, code).dirs
        rmdir == Remounts(op[o].kind, code)
        removed == RmdirOk(old, set, mounted)
        after == Stepped(o, "set mountpoint", code,
                         IF code = 0 THEN "ok" ELSE ExistsResult(code),
                         "done")
    IN /\ o \in active
       /\ op[o].pc = "mountpoint"
       /\ code = 0 => CanSet(Current, op[o].vol)
       /\ ds' = set
       /\ dirs' = IF rmdir
                  THEN RemountedEffect([ds |-> set, dirs |-> mounted],
                                       op[o].src).dirs
                  ELSE mounted
       /\ op' = [op EXCEPT ![o] =
                   IF rmdir
                   THEN [after EXCEPT
                           !.trace = Append(@, "rmdir"),
                           !.result = IF removed THEN after.result
                                      ELSE "OSError",
                           !.returned = IF removed /\ code = 0 THEN {fs}
                                        ELSE {}]
                   ELSE [after EXCEPT
                           !.returned = IF code = 0 THEN {fs} ELSE {}]]
       /\ UNCHANGED <<role, xferVars, parseVars, lcsVars, cmdVars, svcVars,
                      readerVars, writerVars, root, active, origin>>

\* The children of the pool root in the order "zfs list" prints them.
DatasetOrder == << <<"me", "a">>, <<"me", "b">>, <<"other", "a">> >>

\* The output of "zfs list -d 1 -H -o name,mountpoint <pool>": the line of
\* the pool root, then one line for each dataset directly below it; a line
\* is the two sides of line.split('\t').
ListOutput(datasets) ==
    LET present == SelectSeq(DatasetOrder, LAMBDA d : datasets[d].exists)
    IN <<[name |-> PoolName, mountpoint |-> PoolName]>> \o
       [i \in 1..Len(present) |->
          [name |-> PoolName \o <<"/">> \o present[i],
           mountpoint |-> datasets[present[i]].mountpoint]]

\* A listing that keeps every line, the line of the pool root too.
_list_filesystems_unfiltered(output) ==
    [i \in 1..Len(output) |->
       <<SubSeq(output[i].name, Len(PoolName) + 2, Len(output[i].name)),
         output[i].mountpoint>>]

\* A listing that strips the pool and leaves the separator.
_list_filesystems_separator_kept(output) ==
    LET stripped == [i \in 1..Len(output) |->
                       <<SubSeq(output[i].name, Len(PoolName) + 1,
                                Len(output[i].name)),
                         output[i].mountpoint>>]
    IN SelectSeq(stripped, LAMBDA e : e[1] # <<>>)

\* _list_filesystems.listed: the name without the pool and the separator
\* after it; a line whose name is then empty (the pool root) is left out.
_list_filesystems(output) ==
    LET stripped == [i \in 1..Len(output) |->
                       <<SubSeq(output[i].name, Len(PoolName) + 2,
                                Len(output[i].name)),
                         output[i].mountpoint>>]
    IN SelectSeq(stripped, LAMBDA e : e[1] # <<>>)

\* enumerate.listed: the set of the Filesystems of the entries.
listed(filesystems) ==
    {[pool |-> PoolName, dataset |-> e[1], mountpoint |-> e[2]] :
        e \in Range(filesystems)}

\* StoragePool.enumerate: one "zfs list"; a failure of the command is the
\* failure of the operation.
PoolEnumerate(o, code) ==
    /\ Free(o)
    /\ op' = [op EXCEPT ![o] =
                [Started("enumerate", <<>>, <<>>, "list", code,
                         Classify(code), "done")
                   EXCEPT !.returned =
                      IF code = 0
                      THEN listed(_list_filesystems(ListOutput(ds)))
                      ELSE {}]]
    /\ UNCHANGED <<role, xferVars, parseVars, lcsVars, cmdVars, svcVars,
                   readerVars, writerVars, root, ds, dirs, active, origin>>

\* Something outside the pool leaves a file in the old mount directory of a
\* dataset that change_owner is renaming.
ExternalWrite(d) ==
    /\ \E o \in active : op[o].kind = "change_owner" /\ op[o].pc # "done"
                         /\ get(op[o].src).dataset = d
    /\ dirs[d] = "empty"
    /\ dirs' = [dirs EXCEPT ![d] = "nonempty"]
    /\ UNCHANGED <<role, xferVars, parseVars, lcsVars, cmdVars, svcVars,
                   readerVars, writerVars, root, ds, active, op, origin>>

NextPool ==
    \/ \E o \in Slots, v \in Volumes, code \in ExitCodes :
          PoolCreate(o, v, code)
    \/ \E o \in Slots, p \in Volumes, v \in Volumes, code \in ExitCodes :
          CloneSnapshot(o, p, v, code)
    \/ \E o \in Slots, code \in ExitCodes : CloneClone(o, code)
    \/ \E o \in Slots, v \in Volumes, n \in Volumes, code \in ExitCodes :
          ChangeOwnerRename(o, v, n, code)
    \/ \E o \in Slots, code \in ExitCodes : CreatedReadonly(o, code)
    \/ \E o \in Slots, code \in ExitCodes : CreatedMountpoint(o, code)
    \/ \E o \in Slots, code \in ExitCodes : PoolEnumerate(o, code)
    \/ \E d \in Datasets : ExternalWrite(d)

\* A dataset found in the pool when an operation starts: any readonly
\* setting; mounted at its own mount path, or with the default mountpoint
\* that a clone has before it is normalized.
InitialDatasets ==
    {NoDataset} \cup
    [exists : {TRUE}, readonly : {"on", "off", "inherit"},
     mountpoint : {<<"own">>, <<>>}]

\* The pool after startService has returned: both root properties set, or
\* neither when both commands failed.
InitPool ==
    /\ role = "none"
    /\ LcsIdle
    /\ zfsSnaps = <<>>
    /\ ReaderIdle
    /\ bexists = FALSE
    /\ bmount = FALSE
    /\ WriterIdle
    /\ root \in {[readonly |-> "on", canmount |-> "off"],
                 [readonly |-> "off", canmount |-> "on"]}
    /\ \E init \in [Datasets -> InitialDatasets] :
          /\ ds = [d \in Datasets |->
                     IF init[d].exists /\ init[d].mountpoint # <<>>
                     THEN [init[d] EXCEPT !.mountpoint = d] ELSE init[d]]
          /\ dirs = [d \in Datasets |->
                       IF init[d].exists /\ init[d].mountpoint # <<>>
                       THEN "empty" ELSE "missing"]
    /\ active = {1}
    /\ origin = [ds |-> ds, dirs |-> dirs]
    /\ op = [o \in Slots |-> NoOp]
    /\ CmdIdle
    /\ SvcIdle
    /\ ParseIdle
    /\ TransferIdle

SpecPool == InitPool /\ [][NextPool]_vars

(***************************************************************************)
(* Two operations of one pool in progress at once: the reactor runs the    *)
(* callbacks of either Deferred chain as the commands complete, so the     *)
(* steps of the two interleave at the ends of commands.                    *)
(***************************************************************************)
\* A dataset as create() leaves it.
Created(volume) ==
    [exists |-> TRUE, readonly |-> CreateReadonly(volume),
     mountpoint |-> get(volume).mountpoint]

\* A pool after startService in which every dataset is absent or as
\* create() left it.
InitPair ==
    /\ role = "none"
    /\ LcsIdle
    /\ zfsSnaps = <<>>
    /\ ReaderIdle
    /\ bexists = FALSE
    /\ bmount = FALSE
    /\ WriterIdle
    /\ root = [readonly |-> "on", canmount |-> "off"]
    /\ \E present \in SUBSET Volumes :
          /\ ds = [d \in Datasets |->
                     IF \E v \in present : volume_to_dataset(v) = d
                     THEN Created(CHOOSE v \in present :
                                     volume_to_dataset(v) = d)
                     ELSE NoDataset]
          /\ dirs = [d \in Datasets |->
                       IF \E v \in present : volume_to_dataset(v) = d
                       THEN "empty" ELSE "missing"]
    /\ active = Slots
    /\ origin = [ds |-> ds, dirs |-> dirs]
    /\ op = [o \in Slots |-> NoOp]
    /\ CmdIdle
    /\ SvcIdle
    /\ ParseIdle
    /\ TransferIdle

SpecPair == InitPair /\ [][NextPool]_vars

(***************************************************************************)
(* StoragePool.startService: two synchronous commands on the pool root,    *)
(* run by _sync_command_error_squashed.  The outcome of a command is an    *)
(* input: the child could not be spawned, or it exited with a status and   *)
(* an output.  A call is recorded with the root properties before and      *)
(* after it, the commands it issued, the messages it logged and whether it *)
(* returned.                                                               *)
(***************************************************************************)
SyncOutcomes ==
    {[spawned |-> TRUE, status |-> st, output |-> "output"] : st \in {0, 1, 2}}
        \cup {[spawned |-> FALSE, status |-> -1, output |-> "OSError"]}

\* The properties startService sets on the root, in the order it sets them.
RootCommandsCanmountOn ==
    <<[property |-> "readonly", value |-> "on", text |-> "readonly=on"],
      [property |-> "canmount", value |-> "on", text |-> "canmount=on"]>>

RootCommands ==
    <<[property |-> "readonly", value |-> "on", text |-> "readonly=on"],
      [property |-> "canmount", value |-> "off", text |-> "canmount=off"]>>

Arguments(c) == <<"zfs", "set", c.text>> \o PoolName

\* b" ".join(arguments)
RECURSIVE Join(_)
Join(arguments) ==
    IF Len(arguments) <= 1 THEN arguments
    ELSE <<arguments[1], " ">> \o Join(Tail(arguments))

ZFS_ERROR(zfs_command, output, status) ==
    [zfs_command |-> zfs_command, output |-> output, status |-> status]

\* An executor without the try/except: a failed spawn raises.
_sync_command_error_raised(arguments, outcome) ==
    IF ~outcome.spawned
    THEN [raised |-> TRUE, messages |-> <<>>]
    ELSE IF outcome.status # 0
    THEN [raised |-> FALSE,
          messages |-> <<ZFS_ERROR(Join(arguments), outcome.output,
                                   outcome.status)>>]
    ELSE [raised |-> FALSE, messages |-> <<>>]

\* _sync_command_error_squashed: what it writes to the logger and whether
\* an exception leaves it.
_sync_command_error_squashed(arguments, outcome) ==
    IF ~outcome.spawned
    THEN [raised |-> FALSE,
          messages |-> <<ZFS_ERROR(Join(arguments), outcome.output, 1)>>]
    ELSE IF outcome.status # 0
    THEN [raised |-> FALSE,
          messages |-> <<ZFS_ERROR(Join(arguments), outcome.output,
                                   outcome.status)>>]
    ELSE [raised |-> FALSE, messages |-> <<>>]

\* The command took effect: the child ran and exited with status 0.
Effected(outcome) == outcome.spawned /\ outcome.status = 0

\* A "zfs set" that changes the property whatever its outcome.
ApplySetAlways(r, c, outcome) == [r EXCEPT ![c.property] = c.value]

\* "zfs set <property>=<value> <pool>" on the root properties r.
ApplySet(r, c, outcome) ==
    IF Effected(outcome) THEN [r EXCEPT ![c.property] = c.value] ELSE r

\* startService: the first command, then, unless an exception left the
\* first, the second.
StartService(o1, o2) ==
    LET c1     == RootCommands[1]
        c2     == RootCommands[2]
        first  == _sync_command_error_squashed(Arguments(c1), o1)
        second == _sync_command_error_squashed(Arguments(c2), o2)
        root1  == ApplySet(root, c1, o1)
        root2  == ApplySet(root1, c2, o2)
    IN /\ Len(calls) < MaxStarts
       /\ root' = IF first.raised THEN root1 ELSE root2
       /\ calls' = Append(calls,
            IF first.raised
            THEN [before |-> root, after |-> root1,
                  issued |-> <<Arguments(c1)>>, outcomes |-> <<o1>>,
                  messages |-> first.messages, returned |-> FALSE]
            ELSE [before |-> root, after |-> root2,
                  issued |-> <<Arguments(c1), Arguments(c2)>>,
                  outcomes |-> <<o1, o2>>,
                  messages |-> first.messages \o second.messages,
                  returned |-> ~second.raised])
       /\ UNCHANGED <<role, xferVars, parseVars, lcsVars, cmdVars, readerVars,
                      writerVars, ds, dirs, active, op, origin>>

NextStart == \E o1 \in SyncOutcomes, o2 \in SyncOutcomes : StartService(o1, o2)

\* The root of a pool before any startService: any setting of the two
\* properties.
RootStates == [readonly : {"on", "off"}, canmount : {"on", "off"}]

InitStart ==
    /\ role = "service"
    /\ LcsIdle
    /\ zfsSnaps = <<>>
    /\ ReaderIdle
    /\ bexists = FALSE
    /\ bmount = FALSE
    /\ WriterIdle
    /\ root \in RootStates
    /\ ds = [d \in Datasets |-> NoDataset]
    /\ dirs = [d \in Datasets |-> "missing"]
    /\ active = {}
    /\ origin = [ds |-> ds, dirs |-> dirs]
    /\ op = [o \in Slots |-> NoOp]
    /\ CmdIdle
    /\ SvcIdle
    /\ ParseIdle
    /\ TransferIdle

SpecStart == InitStart /\ [][NextStart]_vars

(***************************************************************************)
(* A pool in service: startService once, at any moment, and the operations *)
(* of the pool and of its Filesystems.                                     *)
(***************************************************************************)
StartOnce(o1, o2) ==
    /\ calls = <<>>
    /\ StartService(o1, o2)

NextService ==
    \/ \E o1 \in SyncOutcomes, o2 \in SyncOutcomes : StartOnce(o1, o2)
    \/ NextPool
    \/ Next

\* A pool with at most one dataset, serving pool operations, a reader or a
\* writer.
InitService ==
    /\ LcsIdle
    /\ ReaderIdle
    /\ WriterIdle
    /\ CmdIdle
    /\ SvcIdle
    /\ ParseIdle
    /\ root \in RootStates
    /\ zfsSnaps = <<>>
    /\ op = [o \in Slots |-> NoOp]
    /\ \/ /\ role = "none"
          /\ active = {1}
          /\ bexists = FALSE
          /\ \E present \in BOOLEAN :
                /\ ds = [d \in Datasets |->
                           IF present /\ d = <<"me", "a">>
                           THEN [exists |-> TRUE, readonly |-> "off",
                                 mountpoint |-> d]
                           ELSE NoDataset]
                /\ dirs = [d \in Datasets |->
                             IF present /\ d = <<"me", "a">>
                             THEN "empty" ELSE "missing"]
       \/ /\ role \in {"reader", "writer"}
          /\ active = {}
          /\ bexists \in {b \in BOOLEAN : b => role = "writer"}
          /\ ds = [d \in Datasets |-> NoDataset]
          /\ dirs = [d \in Datasets |-> "missing"]
    /\ bmount = bexists
    /\ origin = [ds |-> ds, dirs |-> dirs]
    /\ TransferIdle

SpecService == InitService /\ [][NextService]_vars

(***************************************************************************)
(* zfs_command: one child process of the zfs tool and the protocol that    *)
(* collects its output.  proto.written is what the child wrote to its      *)
(* standard output, proto.data what the protocol accumulated, proto.fired  *)
(* how many times the Deferred returned to the caller received a result.   *)
(***************************************************************************)
Bytes == {"a", "b"}

\* The reason the transport hands to connectionLost: a child that exits
\* with code 0 ends with ConnectionDone, every other end of the child with
\* ProcessTerminated carrying the exit code (3: any other code, a signal).
ProcessEnded(code) ==
    IF code = 0
    THEN [type |-> "ConnectionDone", exitCode |-> 0]
    ELSE [type |-> "ProcessTerminated", exitCode |-> code]

\* The reason connectProtocol fails with when the child cannot be spawned.
SpawnError == [type |-> "OSError", exitCode |-> -1]

dataReceivedOverwrite(data, chunk) == chunk

dataReceived(data, chunk) == data \o chunk

Raw(reason) ==
    [how |-> "errback", name |-> reason.type, exitCode |-> reason.exitCode,
     data |-> <<>>]

connectionLostAnyFailure(reason, data) ==
    IF reason.type = "ConnectionDone"
    THEN [how |-> "callback", name |-> "bytes", exitCode |-> -1,
          data |-> data]
    ELSE [how |-> "errback", name |-> "CommandFailed", exitCode |-> -1,
          data |-> <<>>]

connectionLost(reason, data) ==
    IF reason.type = "ConnectionDone"
    THEN [how |-> "callback", name |-> "bytes", exitCode |-> -1,
          data |-> data]
    ELSE IF reason.type = "ProcessTerminated" /\ reason.exitCode = 1
    THEN [how |-> "errback", name |-> "CommandFailed", exitCode |-> -1,
          data |-> <<>>]
    ELSE IF reason.type = "ProcessTerminated" /\ reason.exitCode = 2
    THEN [how |-> "errback", name |-> "BadArguments", exitCode |-> -1,
          data |-> <<>>]
    ELSE Raw(reason)

\* connectProtocol: the child is spawned and the protocol connected, or the
\* spawn fails and the Deferred fails with the reason of that failure.
CmdSpawn(spawned) ==
    /\ role = "command"
    /\ proto.state = "idle"
    /\ proto' = IF spawned
                THEN [proto EXCEPT !.state = "connected"]
                ELSE [proto EXCEPT !.state = "failed",
                                   !.fired = proto.fired + 1,
                                   !.outcome = Raw(SpawnError)]
    /\ UNCHANGED <<role, xferVars, parseVars, lcsVars, svcVars, readerVars,
                   writerVars, poolVars>>

\* The child writes to its standard output; the transport delivers the
\* bytes to dataReceived before it reports the end of the process.
ChildWrites(chunk) ==
    /\ proto.state = "connected"
    /\ Len(proto.written) < MaxOutput
    /\ proto' = [proto EXCEPT !.written = proto.written \o chunk,
                              !.data = dataReceived(proto.data, chunk)]
    /\ UNCHANGED <<role, xferVars, parseVars, lcsVars, svcVars, readerVars,
                   writerVars, poolVars>>

\* The child ends: connectionLost fires the result and deletes it.
ChildEnds(code) ==
    /\ proto.state = "connected"
    /\ proto' = [proto EXCEPT
                   !.state = "lost",
                   !.code = code,
                   !.fired = proto.fired + 1,
                   !.outcome = connectionLost(ProcessEnded(code), proto.data)]
    /\ UNCHANGED <<role, xferVars, parseVars, lcsVars, svcVars, readerVars,
                   writerVars, poolVars>>

NextCmd ==
    \/ \E spawned \in BOOLEAN : CmdSpawn(spawned)
    \/ \E b \in Bytes : ChildWrites(<<b>>)
    \/ \E code \in ExitCodes : ChildEnds(code)

InitCmd ==
    /\ role = "command"
    /\ LcsIdle
    /\ zfsSnaps = <<>>
    /\ ReaderIdle
    /\ bexists = FALSE
    /\ bmount = FALSE
    /\ WriterIdle
    /\ PoolIdle
    /\ CmdIdle
    /\ SvcIdle
    /\ ParseIdle
    /\ TransferIdle

SpecCmd == InitCmd /\ [][NextCmd]_vars

(***************************************************************************)
(* _parse_snapshots applied to the bytes of a listing.  Names and the      *)
(* output are sequences of tokens: "@" and "\n" are the separators, the    *)
(* other tokens stand for runs of ordinary characters.                     *)
(***************************************************************************)
\* Filesystem.name of the datasets a parse can ask for.
TargetNames == {<<"pool", "/", "fs">>, <<"pool", "/", "other">>}

\* The datasets a recursive listing can print: the targets, a dataset whose
\* name starts with the name of a target, and a child of a target.
ListedNames ==
    TargetNames \cup
        {<<"pool", "/", "fs", "2">>, <<"pool", "/", "fs", "/", "child">>}

SnapshotTokens == {"s1", "s2"}

ListedLines == [dataset : ListedNames, snapshot : SnapshotTokens]

\* The bytes "zfs list -H -o name" prints for the lines: "<dataset>@<name>"
\* and a newline for each.
RECURSIVE Render(_)
Render(lines) ==
    IF lines = <<>> THEN <<>>
    ELSE lines[1].dataset \o <<"@", lines[1].snapshot, "\n">>
            \o Render(Tail(lines))

\* The index of the first token sep in text, or Len(text) + 1.
RECURSIVE First(_, _, _)
First(text, sep, i) ==
    IF i > Len(text) \/ text[i] = sep THEN i ELSE First(text, sep, i + 1)

\* data.splitlines(): the lines end at "\n"; a last line needs none.
RECURSIVE splitlines(_)
splitlines(data) ==
    IF data = <<>> THEN <<>>
    ELSE LET n == First(data, "\n", 1)
         IN <<SubSeq(data, 1, n - 1)>>
               \o splitlines(SubSeq(data, n + 1, Len(data)))

\* line.split(b'@', 1): the two sides of the first "@".
split(line) ==
    LET n == First(line, "@", 1)
    IN <<SubSeq(line, 1, n - 1), SubSeq(line, n + 1, Len(line))>>

\* _parse_snapshots on the bytes of the output.
ParseOutput(data, name) ==
    LET text == splitlines(data)
    IN _parse_snapshots([i \in 1..Len(text) |-> split(text[i])], name)

ApplyParse ==
    /\ role = "parse"
    /\ ~parse.done
    /\ parse' = [parse EXCEPT !.done = TRUE,
                              !.result = ParseOutput(parse.data, parse.target)]
    /\ UNCHANGED <<role, xferVars, lcsVars, cmdVars, svcVars, readerVars,
                   writerVars, poolVars>>

NextParse == ApplyParse

InitParse ==
    /\ role = "parse"
    /\ LcsIdle
    /\ zfsSnaps = <<>>
    /\ ReaderIdle
    /\ bexists = FALSE
    /\ bmount = FALSE
    /\ WriterIdle
    /\ PoolIdle
    /\ CmdIdle
    /\ SvcIdle
    /\ \E lines \in SeqsUpTo(ListedLines, MaxLen), target \in TargetNames :
          parse = [lines |-> lines, target |-> target, data |-> Render(lines),
                   done |-> FALSE, result |-> <<>>]
    /\ TransferIdle

SpecParse == InitParse /\ [][NextParse]_vars


----------------------------------------------------------------------------
(* Properties of the diff algorithm and of the streaming operations.       *)

\* The element of `list` with the highest index that is a member of S, None
\* when there is none.
NewestIn(list, S) ==
    LET shared == {i \in DOMAIN list : list[i] \in S}
    IN IF shared = {} THEN None
       ELSE list[CHOOSE i \in shared : \A j \in shared : j <= i]

\* reader() has spawned zfs send in the current call.
ReaderSent == rpc \in {"open", "done"} /\ rproc.spawned = 1

\* C1 as stated: the basis of the send is the newest snapshot of the LOCAL
\* listing that the remote history contains, whatever the order of the
\* remote history.
C1_BasisIsNewestLocal ==
    ReaderSent =>
        BasisOf(identifier) = NewestIn(local_snapshots, Range(remote_snapshots))

\* C1 as amended: the basis of the send is the newest snapshot of the
\* caller-supplied REMOTE history that the local listing contains (the
\* element of R with the highest index in R that appears in L), and there is
\* no basis when they share no snapshot.
C1_BasisIsNewestRemote ==
    ReaderSent =>
        BasisOf(identifier) = NewestIn(remote_snapshots, Range(local_snapshots))

\* A send whose two histories share two snapshots in opposite orders.
C1_Witness ==
    /\ ReaderSent
    /\ BasisOf(identifier) # None
    /\ NewestIn(remote_snapshots, Range(local_snapshots))
         # NewestIn(local_snapshots, Range(remote_snapshots))

\* C2: _latest_common_snapshot(A, B) is the element of A with the highest
\* index that also appears in B, None when nothing is shared (so None when A
\* or B is empty), and it depends on B only through the set of its elements
\* (duplicates in B change nothing).
C2_LatestCommonSnapshot ==
    lcs.done =>
        /\ lcs.value = NewestIn(some, Range(others))
        /\ (Range(some) \cap Range(others) = {}) = (lcs.value = None)
        /\ (some = <<>> \/ others = <<>>) => lcs.value = None

\* The function applied to A of three snapshots and B with a duplicate, the
\* shared snapshot not being the newest of A.
C2_Witness ==
    /\ lcs.done
    /\ Len(some) = 3
    /\ ~NoDuplicates(others)
    /\ lcs.value = some[2]
    /\ some[3] # some[2]

\* C5: when the reader scope is left, normally or because the caller raised,
\* the output pipe of the send process has been closed once and the process
\* waited on once, in that order, and a caller's exception reaches the
\* caller; before that, nothing has been closed or waited on.
C5_ReaderReleasesOnce ==
    /\ rpc = "open" => rproc.closed = 0 /\ rproc.waited = 0
    /\ (rpc = "done" /\ rproc.spawned = 1) =>
        /\ rproc.closed = 1
        /\ rproc.waited = 1
        /\ rtrace = <<"snapshot", "list", "send", "close", "wait">>
        /\ rraised => rresult = "CallerError"

\* The caller raised inside the reader scope and the scope has been left.
C5_Witness ==
    /\ rpc = "done"
    /\ rraised
    /\ rproc.closed = 1
    /\ rproc.waited = 1
    /\ rresult = "CallerError"

C7_MountpointAfterSuccessfulReceive ==
    /\ "set mountpoint" \in Range(wtrace) =>
          /\ wproc.closed = 1 /\ wproc.waited = 1 /\ wproc.code = 0
          /\ Len(wtrace) = 5
          /\ SubSeq(wtrace, 3, 5) = <<"close", "wait", "set mountpoint">>
    /\ (wpc = "done" /\ wproc.code # 0) => "set mountpoint" \notin Range(wtrace)

\* A receive that exited 0 followed by the mountpoint command.
C7_Witness ==
    /\ wpc = "done"
    /\ wproc.code = 0
    /\ wtrace[Len(wtrace)] = "set mountpoint"
    /\ bmount

\* C8: when the writer scope is left, normally or because the caller raised,
\* the input pipe of the receive process has been closed once and the
\* process waited on once, in that order; before that, nothing has been
\* closed or waited on.
C8_WriterReleasesOnce ==
    /\ wpc \in {"checked", "open"} => wproc.closed = 0 /\ wproc.waited = 0
    /\ wpc = "done" =>
        /\ wproc.closed = 1
        /\ wproc.waited = 1
        /\ SubSeq(wtrace, 3, 4) = <<"close", "wait">>

\* The caller raised while writing and the scope has been left.
C8_Witness ==
    /\ wpc = "done"
    /\ wraised
    /\ wproc.closed = 1
    /\ wproc.waited = 1
    /\ wresult = "CallerError"

\* C9: the existence check comes before the spawn and alone selects the
\* mode: the command chosen at the check is the forced receive iff the
\* dataset exists at that moment, the process spawned later runs that
\* command even if the dataset has changed since, and one receive process
\* is spawned per call.
C9_ReceiveModeFollowsCheck ==
    /\ [][WriterCheck =>
            cmd' = (IF bexists THEN <<"zfs", "receive", "-F", FsName>>
                    ELSE <<"zfs", "receive", FsName>>)]_vars
    /\ [](wpc = "checked" => wproc.spawned = 0 /\ wtrace = <<"list">>)
    /\ [](wpc \in {"open", "done"} =>
            /\ wproc.spawned = 1
            /\ wtrace[1] = "list"
            /\ wtrace[2] = (IF "-F" \in Range(cmd) THEN "receive -F"
                            ELSE "receive")
            /\ \A i \in DOMAIN wtrace :
                  wtrace[i] \in {"receive", "receive -F"} => i = 2)

\* A forced receive running although the dataset was destroyed after the
\* check.
C9_Witness ==
    /\ wpc = "open"
    /\ wtrace = <<"list", "receive -F">>
    /\ ~bexists

\* C10: reader() first creates a snapshot, then lists, then sends; the send
\* is a full send of the snapshot just created iff the histories share no
\* snapshot, and otherwise an incremental send from the common snapshot to
\* the snapshot just created.
C10_SendFollowsBasis ==
    ReaderSent =>
        /\ SubSeq(rtrace, 1, 3) = <<"snapshot", "list", "send">>
        /\ local_snapshots[Len(local_snapshots)] = snapshot
        /\ TargetOf(identifier) = <<"", FsName, snapshot>>
        /\ IF Range(remote_snapshots) \cap Range(local_snapshots) = {}
           THEN identifier = << <<"", FsName, snapshot>> >>
           ELSE /\ Len(identifier) = 3
                /\ identifier[1][1] = "-i"
                /\ identifier[2] =
                     <<"", FsName,
                       NewestIn(remote_snapshots, Range(local_snapshots))>>

\* An incremental send from an older common snapshot to the new snapshot.
C10_Witness ==
    /\ ReaderSent
    /\ Len(identifier) = 3
    /\ BasisOf(identifier) # snapshot
    /\ BasisOf(identifier) \in Range(local_snapshots)
    /\ TargetOf(identifier)[3] = snapshot

----------------------------------------------------------------------------
(* Properties of the StoragePool operations.                               *)

\* The operation of slot o has ended.
Ended(o) == o \in active /\ op[o].pc = "done"

\* create() ended by a "zfs create" that exited with code 1.
CreateExitedOne(o) ==
    /\ Ended(o)
    /\ op[o].kind = "create"
    /\ op[o].code = 1

C4_ReadonlyFollowsOwnership ==
    \A o \in Slots :
        (/\ Ended(o)
         /\ op[o].kind \in {"create", "clone_to", "change_owner"}
         /\ op[o].result = "ok"
         /\ root.readonly = "on") =>
            LET d == get(op[o].vol).dataset
            IN /\ ds[d].exists
               /\ ds[d].readonly =
                    (IF locally_owned(op[o].vol) THEN "off" ELSE "inherit")
               /\ (Effective(d) = "off") = locally_owned(op[o].vol)

\* change_owner has handed a dataset over to another node: the dataset that
\* was writable is read-only under its new name.
C4_Witness ==
    \E o \in Slots :
        /\ Ended(o)
        /\ op[o].kind = "change_owner"
        /\ op[o].result = "ok"
        /\ root.readonly = "on"
        /\ locally_owned(op[o].src)
        /\ ~locally_owned(op[o].vol)
        /\ Effective(get(op[o].vol).dataset) = "on"

\* The last command or step an operation has run.
LastStep(o) == op[o].trace[Len(op[o].trace)]

\* clone_to and change_owner: the operations that go through _created.
ThroughCreated(o) == op[o].kind \in {"clone_to", "change_owner"}

\* The steps of a whole clone_to or change_owner, in order.
AllSteps(o) ==
    IF op[o].kind = "clone_to"
    THEN <<"snapshot", "clone", ReadonlyCommand(op[o].vol), "set mountpoint">>
    ELSE <<"rename", ReadonlyCommand(op[o].vol), "set mountpoint", "rmdir">>

IsPrefix(s, t) == Len(s) <= Len(t) /\ s = SubSeq(t, 1, Len(s))

\* C12: when the clone command of clone_to or the rename command of
\* change_owner exits with code 1, the operation fails with
\* FilesystemAlreadyExists at that step: the step changes no dataset and no
\* directory, and the operation, once ended, runs no further step (no
\* readonly command, no mountpoint command, no rmdir).
C12_AlreadyExistsStopsOperation ==
    [][\A o \in Slots :
          /\ (/\ op'[o] # op[o]
              /\ ThroughCreated(o)'
              /\ LastStep(o)' \in {"clone", "rename"}
              /\ op'[o].code = 1)
                => /\ op'[o].result = "FilesystemAlreadyExists"
                   /\ op'[o].returned = {}
                   /\ op'[o].pc = "done"
                   /\ ds' = ds
                   /\ dirs' = dirs
          /\ op[o].pc = "done" => op'[o] = op[o]]_vars

\* change_owner onto a dataset that exists has failed on the rename.
C12_Witness ==
    \E o \in Slots :
        /\ Ended(o)
        /\ op[o].kind = "change_owner"
        /\ op[o].trace = <<"rename">>
        /\ op[o].code = 1
        /\ op[o].result = "FilesystemAlreadyExists"
        /\ ds[get(op[o].vol).dataset].exists
        /\ ds[get(op[o].src).dataset].exists

\* C13: when the readonly command or the mountpoint command of the
\* normalization fails, clone_to and change_owner fail with the error of
\* that command: exit code 1 reaches the caller as CommandFailed, never as
\* FilesystemAlreadyExists.
C13_NormalizationFailureKept ==
    \A o \in Slots :
        (/\ Ended(o)
         /\ ThroughCreated(o)
         /\ LastStep(o) \in {"set readonly=off", "inherit readonly",
                             "set mountpoint"}
         /\ op[o].code # 0)
           => /\ op[o].result = Classify(op[o].code)
              /\ op[o].result # "FilesystemAlreadyExists"
              /\ op[o].code = 1 => op[o].result = "CommandFailed"

\* clone_to has failed on exit code 1 of its mountpoint command.
C13_Witness ==
    \E o \in Slots :
        /\ Ended(o)
        /\ op[o].kind = "clone_to"
        /\ LastStep(o) = "set mountpoint"
        /\ op[o].code = 1
        /\ op[o].result = "CommandFailed"

\* C14: clone_to and change_owner run their commands in the order creation
\* command, readonly command, mountpoint command; after the first command
\* that fails the operation issues nothing more, and a failing command
\* undoes nothing: when the mountpoint command fails, the new dataset exists
\* with the readonly setting of the normalization.
C14_NoPartialRollback ==
    [][\A o \in Slots :
          /\ op[o].code \notin {0, -1} => op'[o] = op[o]
          /\ ThroughCreated(o)' => IsPrefix(op'[o].trace, AllSteps(o)')
          /\ (op'[o] # op[o] /\ op'[o].code # 0)
                => ds' = ds /\ dirs' = dirs
          /\ (/\ op'[o] # op[o]
              /\ ThroughCreated(o)'
              /\ LastStep(o)' = "set mountpoint"
              /\ op'[o].code # 0)
                => LET d == get(op'[o].vol).dataset
                   IN /\ ds'[d].exists
                      /\ ds'[d].readonly =
                           NormalizedReadonly(op'[o].vol, ds[d].readonly)
                      /\ op'[o].pc = "done"]_vars

\* change_owner to another node has failed on its mountpoint command: the
\* renamed dataset is left with the inherited readonly and its old
\* mountpoint.
C14_Witness ==
    \E o \in Slots :
        /\ Ended(o)
        /\ op[o].kind = "change_owner"
        /\ LastStep(o) = "set mountpoint"
        /\ op[o].code # 0
        /\ ~locally_owned(op[o].vol)
        /\ ds[get(op[o].vol).dataset].exists
        /\ ds[get(op[o].vol).dataset].readonly = "inherit"
        /\ ds[get(op[o].vol).dataset].mountpoint = get(op[o].src).dataset

\* The old mount directory of a change_owner.
OldDir(o) == get(op[o].src).dataset

\* C15: change_owner removes the old mount directory only in the step in
\* which the mountpoint command, the last of rename, readonly and mountpoint,
\* has succeeded, and runs the removal at most once; a step of change_owner
\* whose command fails leaves every directory as it was and runs no removal.
C15_RmdirOnlyAfterAllSucceeded ==
    [][/\ \A d \in Datasets :
             (dirs[d] # "missing" /\ dirs'[d] = "missing") =>
                \E o \in Slots :
                   /\ op[o].kind = "change_owner"
                   /\ op[o].trace = <<"rename", ReadonlyCommand(op[o].vol)>>
                   /\ op'[o].trace = AllSteps(o)
                   /\ op'[o].code = 0
                   /\ d = OldDir(o)
       /\ \A o \in Slots :
             /\ (/\ op'[o] # op[o]
                 /\ op'[o].kind = "change_owner"
                 /\ op'[o].code # 0)
                   => /\ dirs' = dirs
                      /\ \A i \in DOMAIN op'[o].trace :
                            op'[o].trace[i] # "rmdir"
             /\ Cardinality({i \in DOMAIN op'[o].trace :
                               op'[o].trace[i] = "rmdir"}) <= 1]_vars

\* change_owner has succeeded and the old mount directory is gone.
C15_Witness ==
    \E o \in Slots :
        /\ Ended(o)
        /\ op[o].kind = "change_owner"
        /\ op[o].result = "ok"
        /\ op[o].trace = AllSteps(o)
        /\ dirs[OldDir(o)] = "missing"
        /\ dirs[get(op[o].vol).dataset] = "empty"

\* C16: when the old mount directory is not empty at the time change_owner
\* removes it, the operation fails with the error of the removal and
\* returns no Filesystem, the directory stays as it is, and the rename and
\* the property changes stay: the dataset exists under its new name only,
\* with the normalized readonly and the new mountpoint.
C16_NonEmptyDirFailsLoudly ==
    [][\A o \in Slots :
          (/\ op[o].kind = "change_owner"
           /\ op[o].pc = "mountpoint"
           /\ op'[o].pc = "done"
           /\ op'[o].code = 0
           /\ dirs[OldDir(o)] = "nonempty")
             => LET new == get(op[o].vol).dataset
                IN /\ op'[o].result = "OSError"
                   /\ op'[o].returned = {}
                   /\ dirs'[OldDir(o)] = "nonempty"
                   /\ ds'[new].exists
                   /\ ~ds'[OldDir(o)].exists
                   /\ ds'[new].readonly =
                        NormalizedReadonly(op[o].vol, ds[new].readonly)
                   /\ ds'[new].mountpoint = get(op[o].vol).mountpoint]_vars

\* change_owner has failed on the removal of a directory that holds a file.
C16_Witness ==
    \E o \in Slots :
        /\ Ended(o)
        /\ op[o].kind = "change_owner"
        /\ LastStep(o) = "rmdir"
        /\ op[o].result = "OSError"
        /\ dirs[OldDir(o)] = "nonempty"
        /\ ds[get(op[o].vol).dataset].exists
        /\ ds[get(op[o].vol).dataset].mountpoint = get(op[o].vol).mountpoint

\* C17: when a command of create, clone_to, change_owner or enumerate exits
\* with code 2 or ends in any way other than exit codes 0 and 1, the
\* operation fails with that error as zfs_command reported it (BadArguments,
\* the termination reason): it is not FilesystemAlreadyExists and not a
\* success.
C17_OtherFailuresUnchanged ==
    \A o \in Slots :
        (/\ Ended(o)
         /\ op[o].kind \in {"create", "clone_to", "change_owner", "enumerate"}
         /\ op[o].code \notin {0, 1})
           => /\ op[o].result = Classify(op[o].code)
              /\ op[o].result \in {"BadArguments", "ProcessTerminated"}
              /\ op[o].code = 2 <=> op[o].result = "BadArguments"
              /\ op[o].returned = {}

\* A clone command that was killed: the failure went through creation_failed
\* and is still the termination reason.
C17_Witness ==
    \E o \in Slots :
        /\ Ended(o)
        /\ op[o].kind = "clone_to"
        /\ LastStep(o) = "clone"
        /\ op[o].code = 3
        /\ op[o].result = "ProcessTerminated"

(***************************************************************************)
(* Properties of startService.                                             *)
(***************************************************************************)
RootTarget == [readonly |-> "on", canmount |-> "off"]

\* The command with this outcome failed: no child, or a non-zero status.
Failed(outcome) == ~outcome.spawned \/ outcome.status # 0

\* C18 as stated: once startService has returned, the root has readonly=on
\* and canmount=off, and stays so.
C18_RootSetAfterStart ==
    calls # <<>> => root = RootTarget

\* C18 as amended: once startService has returned, and whatever operation
\* of the pool or of its Filesystems has run since, each root property whose
\* command took effect has the value startService sets (readonly=on,
\* canmount=off) and each root property whose command failed has the value
\* it had before startService.
C18_RootSetWhereCommandSucceeded ==
    calls # <<>> =>
        LET c == calls[1]
        IN /\ c.returned
           /\ Len(c.outcomes) = 2
           /\ root.readonly = IF Failed(c.outcomes[1])
                              THEN c.before.readonly ELSE "on"
           /\ root.canmount = IF Failed(c.outcomes[2])
                              THEN c.before.canmount ELSE "off"

\* After a startService whose first command failed and whose second took
\* effect, change_owner has succeeded: the root is still writable and not
\* mounted.
C18_Witness ==
    /\ calls # <<>>
    /\ calls[1].before = [readonly |-> "off", canmount |-> "on"]
    /\ Failed(calls[1].outcomes[1])
    /\ root = [readonly |-> "off", canmount |-> "off"]
    /\ \E o \in Slots :
          /\ Ended(o)
          /\ op[o].kind = "change_owner"
          /\ op[o].result = "ok"

\* C19 as stated: a second startService leaves the root as the first left
\* it, with readonly=on and canmount=off.
C19_SecondStartSameAsFirst ==
    \A i \in 2..Len(calls) :
        /\ calls[i].after = calls[i - 1].after
        /\ calls[i].after = RootTarget

\* C19 as amended: from any root properties, a startService whose two
\* commands take effect leaves readonly=on and canmount=off; a startService
\* never takes a property away from that value, whatever its commands do;
\* so a startService run after one whose commands took effect leaves the
\* root as the first left it.
C19_StartIdempotentWhenEffected ==
    \A i \in 1..Len(calls) :
        LET c == calls[i]
        IN /\ (~Failed(c.outcomes[1]) /\ ~Failed(c.outcomes[2]))
                 => c.after = RootTarget
           /\ c.before.readonly = "on" => c.after.readonly = "on"
           /\ c.before.canmount = "off" => c.after.canmount = "off"
           /\ i > 1 =>
                /\ c.before = calls[i - 1].after
                /\ (~Failed(calls[i - 1].outcomes[1])
                    /\ ~Failed(calls[i - 1].outcomes[2]))
                      => c.after = calls[i - 1].after

\* Two startService calls on a root that had neither property set: the
\* commands of the first took effect, those of the second failed.
C19_Witness ==
    /\ Len(calls) >= 2
    /\ calls[1].before = [readonly |-> "off", canmount |-> "on"]
    /\ calls[1].after = RootTarget
    /\ Failed(calls[2].outcomes[1])
    /\ Failed(calls[2].outcomes[2])
    /\ calls[2].after = RootTarget

\* C20: startService always returns and always issues both commands, "zfs
\* set readonly=on <pool>" then "zfs set canmount=off <pool>"; it logs one
\* message for each command that could not be spawned or exited non-zero,
\* with the arguments joined by spaces, the output (the text of the
\* exception when the spawn failed) and the status (1 when the spawn
\* failed), and no message for a command that exited with status 0.
C20_SquashedAndLogged ==
    \A i \in 1..Len(calls) :
        LET c == calls[i]
            joined == << <<"zfs", " ", "set", " ", "readonly=on", " ", "pool">>,
                         <<"zfs", " ", "set", " ", "canmount=off", " ",
                           "pool">> >>
            Message(k) ==
                IF Failed(c.outcomes[k])
                THEN <<[zfs_command |-> joined[k],
                        output |-> c.outcomes[k].output,
                        status |-> IF c.outcomes[k].spawned
                                   THEN c.outcomes[k].status ELSE 1]>>
                ELSE <<>>
        IN /\ c.returned
           /\ c.issued = << <<"zfs", "set", "readonly=on", "pool">>,
                            <<"zfs", "set", "canmount=off", "pool">> >>
           /\ Len(c.outcomes) = 2
           /\ c.messages = Message(1) \o Message(2)

\* The first command could not be spawned, the second took effect: one
\* message, and the root is no longer mounted.
C20_Witness ==
    \E i \in 1..Len(calls) :
        /\ ~calls[i].outcomes[1].spawned
        /\ calls[i].outcomes[2].status = 0
        /\ Len(calls[i].messages) = 1
        /\ calls[i].messages[1].status = 1
        /\ calls[i].before.canmount = "on"
        /\ calls[i].after.canmount = "off"

(***************************************************************************)
(* Properties of enumerate.                                                *)
(***************************************************************************)

\* with_cmp(["pool", "dataset"]): two Filesystems are equal when their pool
\* and dataset are; the mount path takes no part.
FilesystemEq(a, b) == a.pool = b.pool /\ a.dataset = b.dataset

\* enumerate() has succeeded in slot o.
Enumerated(o) ==
    /\ Ended(o)
    /\ op[o].kind = "enumerate"
    /\ op[o].result = "ok"

\* C22: a successful enumerate() returns one Filesystem for each dataset
\* directly below the pool root and nothing else: each has the pool's name,
\* the name of its dataset without the pool and the separator (never
\* empty), and the mountpoint the listing printed; the pool root is not in
\* the result.
C22_EnumerateListsChildren ==
    \A o \in Slots :
        Enumerated(o) =>
            /\ op[o].returned =
                 {[pool |-> <<"pool">>, dataset |-> d,
                   mountpoint |-> ds[d].mountpoint] :
                      d \in {e \in Datasets : ds[e].exists}}
            /\ Cardinality(op[o].returned) =
                 Cardinality({e \in Datasets : ds[e].exists})
            /\ \A f \in op[o].returned :
                  /\ f.dataset # <<>>
                  /\ f.dataset \in Datasets
                  /\ f.pool = <<"pool">>

\* enumerate() of a pool with several datasets, one of them a clone that
\* still has its default mountpoint.
C22_Witness ==
    \E o \in Slots :
        /\ Enumerated(o)
        /\ Cardinality(op[o].returned) >= 2
        /\ \E f \in op[o].returned : f.mountpoint = <<>>
        /\ \E f \in op[o].returned : f.mountpoint = f.dataset

\* C21: when create(volume) has succeeded and enumerate() runs next and
\* succeeds, the set it returns holds a Filesystem equal to get(volume):
\* the same pool and the same dataset as the ones create() used.
C21_CreateThenEnumerate ==
    [][\A o \in Slots, e \in Slots :
          (/\ Ended(o)
           /\ op[o].kind = "create"
           /\ op[o].result = "ok"
           /\ op[e].pc = "idle"
           /\ op'[e].kind = "enumerate"
           /\ op'[e].result = "ok")
             => \E f \in op'[e].returned :
                   /\ FilesystemEq(f, get(op[o].vol))
                   /\ f.pool = <<"pool">>
                   /\ f.dataset = <<op[o].vol[1], op[o].vol[2]>>]_vars

\* create() made a dataset the pool did not have, and the enumerate() after
\* it returned that dataset.
C21_Witness ==
    \E o \in Slots, e \in Slots :
        /\ Ended(o)
        /\ op[o].kind = "create"
        /\ op[o].result = "ok"
        /\ ~origin.ds[get(op[o].vol).dataset].exists
        /\ Enumerated(e)
        /\ \E f \in op[e].returned : FilesystemEq(f, get(op[o].vol))

(***************************************************************************)
(* Properties of the parse of a snapshot listing.                          *)
(***************************************************************************)

\* C23: for the output of a listing and a target Filesystem,
\* _parse_snapshots returns the snapshot names of exactly the lines whose
\* dataset, the part before the "@", is the full name of the target, in the
\* order of the output; the lines of other datasets, a child or a dataset
\* whose name only starts with the name of the target among them, are left
\* out.
C23_ParseKeepsTargetLines ==
    parse.done =>
        LET kept == SelectSeq(parse.lines,
                              LAMBDA l : l.dataset = parse.target)
        IN parse.result = [i \in 1..Len(kept) |-> <<kept[i].snapshot>>]

\* A listing of pool/fs with two snapshots of it in creation order and, in
\* between, a snapshot of pool/fs2.
C23_Witness ==
    /\ parse.done
    /\ parse.target = <<"pool", "/", "fs">>
    /\ Len(parse.lines) = 3
    /\ parse.lines[2].dataset = <<"pool", "/", "fs", "2">>
    /\ parse.result = << <<"s2">>, <<"s1">> >>

(***************************************************************************)
(* Properties of operations in progress together.  An ended operation is   *)
(* run again alone, from given datasets and directories, with the exit     *)
(* codes it met: 0 for every command before its last, op.code for the      *)
(* last.                                                                   *)
(***************************************************************************)
\* The index of the last zfs command in the trace of an operation.
LastCommand(rec) ==
    IF rec.trace[Len(rec.trace)] = "rmdir"
    THEN Len(rec.trace) - 1 ELSE Len(rec.trace)

CodeAt(rec, i) == IF i = LastCommand(rec) THEN rec.code ELSE 0

\* What step i of the operation needs for exit code 0, and what it does.
CanStep(st, rec, i) ==
    LET c == rec.trace[i]
    IN CASE c \in {"create", "create readonly=off"} -> CanCreate(st, rec.vol)
         [] c = "snapshot" -> CanSnapshot(st, rec.src)
         [] c = "clone" -> CanClone(st, rec.src, rec.vol)
         [] c = "rename" -> CanRename(st, rec.src, rec.vol)
         [] c \in {"set readonly=off", "inherit readonly", "set mountpoint"}
               -> CanSet(st, rec.vol)
         [] OTHER -> TRUE

StepEffect(st, rec, i) ==
    LET c == rec.trace[i]
        code == CodeAt(rec, i)
    IN CASE c \in {"create", "create readonly=off"}
               -> CreateEffect(st, rec.vol, code)
         [] c = "clone" -> CloneEffect(st, rec.vol, code)
         [] c = "rename" -> RenameEffect(st, rec.src, rec.vol, code)
         [] c \in {"set readonly=off", "inherit readonly"}
               -> ReadonlyEffect(st, rec.vol, code)
         [] c = "set mountpoint" -> MountpointEffect(st, rec.vol, code)
         [] c = "rmdir" -> RemountedEffect(st, rec.src)
         [] OTHER -> st

\* The datasets and directories after steps i..n of the operation.
RECURSIVE Replay(_, _, _, _)
Replay(st, rec, i, n) ==
    IF i > n THEN st ELSE Replay(StepEffect(st, rec, i), rec, i + 1, n)

Alone(st, rec) == Replay(st, rec, 1, Len(rec.trace))

\* The exit codes of the operation can be met from st.
RECURSIVE Feasible(_, _, _)
Feasible(st, rec, i) ==
    \/ i > Len(rec.trace)
    \/ /\ CodeAt(rec, i) = 0 => CanStep(st, rec, i)
       /\ Feasible(StepEffect(st, rec, i), rec, i + 1)

\* The result of the operation run alone from st.
ResultAlone(st, rec) ==
    LET n    == Len(rec.trace)
        c    == rec.trace[n]
        last == Replay(st, rec, 1, n - 1)
    IN CASE c = "rmdir"
               -> IF RmdirOk(get(rec.src).dataset, last.ds, last.dirs)
                  THEN "ok" ELSE "OSError"
         [] c \in {"create", "create readonly=off"} -> CreateResult(rec.code)
         [] c \in {"snapshot", "clone", "rename"} -> CreatedResult(rec.code)
         [] OTHER -> IF rec.code = 0 THEN "ok" ELSE ExistsResult(rec.code)

\* The datasets an operation changes, and those it only reads.
Writes(rec) ==
    IF rec.kind = "change_owner"
    THEN {get(rec.src).dataset, get(rec.vol).dataset}
    ELSE {get(rec.vol).dataset}

Reads(rec) == IF rec.kind = "clone_to" THEN {get(rec.src).dataset} ELSE {}

\* Neither operation changes a dataset the other changes or reads; two
\* operations with no dataset in common are the first case of this.
Independent(a, b) ==
    /\ Writes(a) \cap (Writes(b) \cup Reads(b)) = {}
    /\ Writes(b) \cap Reads(a) = {}

\* Slots a and b hold two ended create, clone_to or change_owner that are
\* independent, and nothing but the two has touched the directories.
BothEnded(a, b) ==
    /\ a # b
    /\ Ended(a)
    /\ Ended(b)
    /\ {op[a].kind, op[b].kind} \subseteq {"create", "clone_to", "change_owner"}
    /\ Independent(op[a], op[b])
    /\ \A d \in Datasets : dirs[d] # "nonempty"

C11_TerminationClassifiedOnce ==
    /\ proto.state \in {"idle", "connected"} =>
          proto.fired = 0 /\ proto.outcome = NoOutcome
    /\ proto.state = "failed" =>
          proto.fired = 1 /\ proto.outcome = Raw(SpawnError)
    /\ proto.state = "lost" =>
          /\ proto.fired = 1
          /\ proto.code = 0 =>
                /\ proto.outcome.how = "callback"
                /\ proto.outcome.data = proto.written
          /\ proto.code = 1 =>
                /\ proto.outcome.how = "errback"
                /\ proto.outcome.name = "CommandFailed"
          /\ proto.code = 2 =>
                /\ proto.outcome.how = "errback"
                /\ proto.outcome.name = "BadArguments"
          /\ proto.code \notin {0, 1, 2} =>
                /\ proto.outcome.how = "errback"
                /\ proto.outcome.name = "ProcessTerminated"
                /\ proto.outcome.exitCode = proto.code

\* A child that wrote several chunks and exited with code 0.
C11_Witness ==
    /\ proto.state = "lost"
    /\ proto.code = 0
    /\ Len(proto.written) >= 2
    /\ proto.outcome.data = proto.written

----------------------------------------------------------------------------
(* Properties of the basis of an incremental send.                         *)

\* The send command of the current call is incremental.
IncrementalIssued == ReaderSent /\ Len(identifier) = 3

\* C26: whenever reader() issues an incremental send, the basis is a member
\* of the local listing taken in that call and of the caller-supplied remote
\* history, it differs from the snapshot the call just created unless the
\* remote history already holds that fresh name, and it names a snapshot of
\* the dataset that exists locally.
C26_BasisExistsLocally ==
    IncrementalIssued =>
        /\ BasisOf(identifier) \in Range(local_snapshots)
        /\ BasisOf(identifier) \in Range(remote_snapshots)
        /\ snapshot \notin Range(remote_snapshots)
              => BasisOf(identifier) # snapshot
        /\ <<FsName, BasisOf(identifier)>> \in Range(zfsSnaps)

\* An incremental send whose remote history also holds a snapshot that the
\* sent dataset lacks but the dataset beneath it has, and not the fresh name.
C26_Witness ==
    /\ IncrementalIssued
    /\ snapshot \notin Range(remote_snapshots)
    /\ \E n \in Range(remote_snapshots) :
          /\ <<FsName, n>> \notin Range(zfsSnaps)
          /\ <<ChildName, n>> \in Range(zfsSnaps)

----------------------------------------------------------------------------
(* Properties of a writer scope left by an exception.                      *)

\* C28: when the caller raises inside the scope of writer(), the pipe is
\* closed and the process waited on, the caller's exception propagates and
\* no mountpoint command is issued, whatever the exit code of the receive
\* process, code 0 included.
C28_RaiseSkipsMountpoint ==
    (wpc = "done" /\ wraised) =>
        /\ wproc.closed = 1 /\ wproc.waited = 1
        /\ wtrace[Len(wtrace)] = "wait"
        /\ wtrace[Len(wtrace) - 1] = "close"
        /\ "set mountpoint" \notin Range(wtrace)
        /\ wresult = "CallerError"

\* The caller raised in the scope of a forced receive that exited with 0.
C28_Witness ==
    /\ wpc = "done"
    /\ wraised
    /\ wproc.code = 0
    /\ existed
    /\ bexists

----------------------------------------------------------------------------
(* Properties of the parent snapshot of clone_to.                          *)

\* C29: clone_to issues the clone command only after the parent-snapshot
\* command exited with code 0; when the parent-snapshot command exits with
\* code 1 the operation ends there, with no clone and no normalization
\* command, no dataset changed, and the error FilesystemAlreadyExists, which
\* is also the error of a clone command that exits with code 1.
C29_SnapshotFailureLooksLikeExisting ==
    [][\A o \in Slots :
          /\ (op'[o] # op[o] /\ LastStep(o)' = "clone")
                => /\ op[o].kind = "clone_to"
                   /\ op[o].trace = <<"snapshot">>
                   /\ op[o].code = 0
          /\ (/\ op'[o] # op[o]
              /\ op'[o].kind = "clone_to"
              /\ LastStep(o)' = "snapshot"
              /\ op'[o].code = 1)
                => /\ op'[o].pc = "done"
                   /\ op'[o].trace = <<"snapshot">>
                   /\ op'[o].result = "FilesystemAlreadyExists"
                   /\ op'[o].result = CreatedResult(1)
                   /\ op'[o].returned = {}
                   /\ ds' = ds
                   /\ dirs' = dirs
          /\ (op[o].kind = "clone_to" /\ op[o].pc = "done")
                => op'[o] = op[o]]_vars

\* clone_to onto a dataset that does not exist has failed with
\* FilesystemAlreadyExists on exit code 1 of the parent snapshot.
C29_Witness ==
    \E o \in Slots :
        /\ Ended(o)
        /\ op[o].kind = "clone_to"
        /\ op[o].trace = <<"snapshot">>
        /\ op[o].code = 1
        /\ op[o].result = "FilesystemAlreadyExists"
        /\ ~ds[get(op[o].vol).dataset].exists

----------------------------------------------------------------------------
(* Properties of transfers between two hosts.                              *)

\* C27: once a transfer from host A to host B has succeeded, and nothing
\* but transfers changes the snapshots of either host, every later reader()
\* on A given B's snapshots issues an incremental send whose basis is a
\* snapshot present on both hosts, and every later writer() on B finds the
\* dataset and uses a forced receive.
C27_NextTransferIsIncremental ==
    xfer.ok =>
        /\ ReaderSent =>
              /\ IncrementalIssued
              /\ BasisOf(identifier) \in Range(bsnaps)
              /\ <<FsName, BasisOf(identifier)>> \in Range(zfsSnaps)
        /\ wpc \in {"checked", "open", "done"} =>
              /\ existed
              /\ cmd = <<"zfs", "receive", "-F", FsName>>

\* A full transfer into a host without the dataset has succeeded, and the
\* forced receive of the incremental transfer after it has succeeded too.
C27_Witness ==
    /\ xfer.ok
    /\ TransferSucceeded
    /\ IncrementalIssued
    /\ Len(bsnaps) = 2
    /\ bsnaps[1] = BasisOf(identifier)
    /\ bsnaps[2] = snapshot
    /\ "-F" \in Range(cmd)

----------------------------------------------------------------------------
(* Properties of the content sent.                                         *)

\* C25: the stream of reader() encodes the content the dataset had when the
\* snapshot of that call was created: the snapshot takes the live content,
\* the stream copied out of the scope is the content of that snapshot, and
\* a write to the live dataset between the snapshot and the end of the
\* scope changes neither the snapshot nor what is sent.
C25_StreamIsSnapshotContent ==
    [][/\ (rpc = "idle" /\ rpc' = "open")
            => /\ captured'[snapshot'] = content
               /\ TargetOf(identifier')[3] = snapshot'
       /\ (rpc = "open" /\ content' # content)
            => /\ captured' = captured
               /\ stream' = stream
               /\ identifier' = identifier
       /\ (rpc = "open" /\ stream' # stream)
            => /\ stream'.target = snapshot
               /\ stream'.data = captured[snapshot]]_vars

\* The stream copied after a write that followed the snapshot: what is sent
\* is the older content.
C25_Witness ==
    /\ rpc = "open"
    /\ stream # NoStream
    /\ stream.target = snapshot
    /\ stream.data # content
    /\ stream.data = captured[snapshot]

====
